---- MODULE Spec2Model ----
(***************************************************************************)
(* Workflow engine of adk-agentic-writer: the four execution patterns of   *)
(* Workflow.execute (sequential, parallel, loop, conditional) driving       *)
(* agents that follow StatefulAgent.process_task.                           *)
(*                                                                          *)
(* Six specifications share the module: Spec (one Workflow.execute),        *)
(* AgentSpec (one StatefulAgent called directly), SubstitutionSpec          *)
(* (variable substitution and validation of a prompt), RuntimeSpec (the     *)
(* creation of agents and teams by AgentRuntime), RegistrySpec (lookups,    *)
(* executions, resets and shutdown of AgentRuntime) and RepeatSpec (one     *)
(* SEQUENTIAL workflow executed twice).                                     *)
(*                                                                          *)
(* Python dicts are functions over string keys (<<>> is the empty dict),    *)
(* Optional[int] is a sequence of length 0 or 1, exceptions are strings.    *)
(* One step of the model is one run of the event loop: the code between two *)
(* suspension points.  The only suspension points are the generation step   *)
(* (_execute_task) inside process_task and the asyncio.gather barrier.      *)
(***************************************************************************)
EXTENDS Integers, Sequences, FiniteSets, TLC

VARIABLES cfg, input_data, wf_state, result, error, iteration, state, frames, gather, done_order,
          template, context, substituted, validated,
          agent_state, call,
          runtime_agents, runtime_teams, runtime_workflows

vars == <<cfg, input_data, wf_state, result, error, iteration, state, frames, gather, done_order,
          template, context, substituted, validated, agent_state, call, runtime_agents, runtime_teams,
          runtime_workflows>>

\* the variables of one invocation of Workflow.execute
workflow_vars == <<cfg, input_data, wf_state, result, error, iteration, state, frames, gather, done_order>>

\* the inputs and outputs of substitute_variables and validate_variables
substitution_vars == <<template, context, substituted, validated>>

\* the StatefulAgent driven directly, and the operation last called on it or
\* on the runtime
agent_vars == <<agent_state, call>>

\* the registries of AgentRuntime
runtime_vars == <<runtime_agents, runtime_teams, runtime_workflows>>

(***************************************************************************)
(* Bounds of the model.                                                     *)
(***************************************************************************)
MaxAgents == 3
MaxIterations == 2

(***************************************************************************)
(* Python values.  `result` is the running result of execute and, once the  *)
(* workflow has completed, the value returned; a failed execute returns     *)
(* nothing (None).                                                          *)
(***************************************************************************)
None == [none |-> TRUE]
NoError == "None"
NoInt == <<>>
Some(n) == <<n>>

\* dict.get(key, default)
Get(d, key, default) == IF key \in DOMAIN d THEN d[key] ELSE default

\* {**a, **b} and a.update(b): the right operand wins
Update(a, b) == [k \in DOMAIN a \cup DOMAIN b |-> IF k \in DOMAIN b THEN b[k] ELSE a[k]]

(***************************************************************************)
(* Variable substitution (utils/variable_substitution.py).                  *)
(* A text is a sequence of one-character strings.  A value that a context   *)
(* holds is a dict (a function over string keys), a Python str (Str), or    *)
(* None.  str() of a dict is kept opaque as one symbol.                     *)
(***************************************************************************)
MaxPieces == 3

Str(chars) == [str |-> chars]

IsNone(value) == "none" \in DOMAIN value

\* isinstance(value, dict)
IsDict(value) == DOMAIN value \cap {"str", "none"} = {}

\* str(value)
StrOf(value) ==
  IF IsNone(value) THEN <<"N", "o", "n", "e">>
  ELSE IF IsDict(value) THEN <<"<dict>">>
  ELSE value.str

\* the Python str spelled by a text: the key a name looks up
RECURSIVE Cat(_)
Cat(chars) == IF chars = <<>> THEN "" ELSE chars[1] \o Cat(Tail(chars))

\* index of the first c in chars at or after position i, 0 when there is none
RECURSIVE Find(_, _, _)
Find(chars, c, i) ==
  IF i > Len(chars) THEN 0
  ELSE IF chars[i] = c THEN i
  ELSE Find(chars, c, i + 1)

\* var_name.split(".")
RECURSIVE Split(_)
Split(chars) ==
  LET i == Find(chars, ".", 1)
  IN  IF i = 0 THEN <<chars>>
      ELSE <<SubSeq(chars, 1, i - 1)>> \o Split(SubSeq(chars, i + 1, Len(chars)))

\* end of the match of \{([^}]+)\} that starts at position i, 0 when the
\* pattern does not match there
MatchEnd(text, i) ==
  IF i > Len(text) \/ text[i] # "{" THEN 0
  ELSE LET j == Find(text, "}", i + 1)
       IN  IF j >= i + 2 THEN j ELSE 0

\* the loop over the parts of a dotted name in replace_var
RECURSIVE WalkSubstitute(_, _, _)
WalkSubstitute(value, parts, match) ==
  IF parts = <<>> THEN StrOf(value)
  ELSE IF IsDict(value)
       THEN WalkSubstitute(Get(value, Cat(parts[1]), Str(match)), Tail(parts), match)
       ELSE match

\* replace_var that substitutes the lookup of the last segment alone
replace_var_last_segment(match, variables) ==
  LET var_name == SubSeq(match, 2, Len(match) - 1)
      parts == Split(var_name)
      value == Get(variables, Cat(parts[Len(parts)]), Str(match))
  IN  StrOf(value)

\* substitute_variables.replace_var: match is match.group(0)
replace_var(match, variables) ==
  LET var_name == SubSeq(match, 2, Len(match) - 1)
  IN  IF Find(var_name, ".", 1) # 0
      THEN WalkSubstitute(variables, Split(var_name), match)
      ELSE LET value == Get(variables, Cat(var_name), Str(match))
           IN  IF value # Str(match) THEN StrOf(value) ELSE match

\* re.sub(pattern, replace_var, text) from position i on
RECURSIVE Sub(_, _, _)
Sub(text, i, variables) ==
  IF i > Len(text) THEN <<>>
  ELSE LET j == MatchEnd(text, i)
       IN  IF j # 0
           THEN replace_var(SubSeq(text, i, j), variables) \o Sub(text, j + 1, variables)
           ELSE <<text[i]>> \o Sub(text, i + 1, variables)

substitute_variables(text, variables) == Sub(text, 1, variables)

\* re.findall(pattern, text) from position i on: the names, as texts
RECURSIVE FindAll(_, _)
FindAll(text, i) ==
  IF i > Len(text) THEN <<>>
  ELSE LET j == MatchEnd(text, i)
       IN  IF j # 0
           THEN <<SubSeq(text, i + 1, j - 1)>> \o FindAll(text, j + 1)
           ELSE FindAll(text, i + 1)

extract_variable_names(text) == FindAll(text, 1)

\* the loop over the parts of a dotted name in validate_variables: TRUE when
\* the name is appended to missing
RECURSIVE WalkMissing(_, _)
WalkMissing(value, parts) ==
  IF parts = <<>> THEN FALSE
  ELSE IF IsDict(value)
       THEN LET next == Get(value, Cat(parts[1]), None)
            IN  IF IsNone(next) THEN TRUE ELSE WalkMissing(next, Tail(parts))
       ELSE TRUE

IsMissing(var_name, variables) ==
  IF Find(var_name, ".", 1) # 0
  THEN WalkMissing(variables, Split(var_name))
  ELSE Cat(var_name) \notin DOMAIN variables

RECURSIVE MissingOf(_, _)
MissingOf(required_vars, variables) ==
  IF required_vars = <<>> THEN <<>>
  ELSE (IF IsMissing(required_vars[1], variables)
        THEN <<Cat(required_vars[1])>> ELSE <<>>)
       \o MissingOf(Tail(required_vars), variables)

\* validate_variables: the tuple (is_valid, missing)
validate_variables(text, variables) ==
  LET missing == MissingOf(extract_variable_names(text), variables)
  IN  [ok |-> Len(missing) = 0, missing |-> missing]

(***************************************************************************)
(* Tasks.  The workflow hands the value found under "task_description" to   *)
(* process_task as the task; the agent reads its task_id and output_key.    *)
(* The default description "Process task" is a task without output key.     *)
(***************************************************************************)
DefaultTask == [task_id |-> "Process task", output_key |-> "None"]
T1 == [task_id |-> "t1", output_key |-> "draft"]
T2 == [task_id |-> "t2", output_key |-> "review"]

(***************************************************************************)
(* Inputs of execute and results of the generation step.                    *)
(***************************************************************************)
Inputs ==
  { [task_description |-> T1, parameters |-> [topic |-> "x"]],
    [tag |-> "in"] }

R1 == [tag |-> "r1"]
R2 == [tag |-> "r2", task_description |-> T2,
       parameters |-> [topic |-> "y", content |-> [tag |-> "old"]]]
Results == {R1, R2}

Exceptions == {"GenerationError", "TimeoutError"}

(***************************************************************************)
(* Agents: AgentState of a freshly constructed StatefulAgent.               *)
(***************************************************************************)
Agents == 1..MaxAgents

AgentState ==
  [status |-> "idle", current_task |-> "None", completed_tasks |-> <<>>,
   variables |-> <<>>, parameters |-> <<>>]

\* StatefulAgent.update_parameters
update_parameters(st, updates) ==
  [st EXCEPT !.parameters = Update(@, updates)]

\* mutant of set_variable: every value is stored under the key j
set_variable_under_j(st, key, value) ==
  [st EXCEPT !.variables = Update(@, [k \in {"j"} |-> value])]

\* StatefulAgent.set_variable
set_variable(st, key, value) ==
  [st EXCEPT !.variables = Update(@, [k \in {key} |-> value])]

\* mutant of process_task_begin: the call's parameters are not stored
process_task_begin_without_parameters(st, task, parameters) ==
  [st EXCEPT !.status = "working", !.current_task = task.task_id]

\* process_task up to the generation step (the first suspension point)
process_task_begin(st, task, parameters) ==
  LET working == [st EXCEPT !.status = "working", !.current_task = task.task_id]
  IN  IF parameters # <<>> THEN update_parameters(working, parameters) ELSE working

\* mutant of process_task_end: the current task is not cleared and the
\* result is stored under the task id when no output key is declared
process_task_end_keeps_task(st, task, res) ==
  LET stored == set_variable(st, IF task.output_key # "None" THEN task.output_key
                                 ELSE task.task_id, res)
  IN  [stored EXCEPT !.completed_tasks = Append(@, task.task_id),
                     !.status = "completed"]

\* process_task after the generation step has returned `res`
process_task_end(st, task, res) ==
  LET stored == IF task.output_key # "None"
                THEN set_variable(st, task.output_key, res)
                ELSE st
  IN  [stored EXCEPT !.completed_tasks = Append(@, task.task_id),
                     !.current_task = "None",
                     !.status = "completed"]

(***************************************************************************)
(* One invocation of process_task made by the workflow.                     *)
(* phase: created (coroutine object exists, nothing has run), executing     *)
(* (suspended in the generation step), returned, raised.                    *)
(***************************************************************************)
Frame(agent, task, parameters, phase) ==
  [agent |-> agent, task |-> task, parameters |-> parameters,
   phase |-> phase, result |-> None, error |-> NoError]

\* the agent state after process_task has been entered on `agent`
Enter(st, agent, task, parameters) ==
  [st EXCEPT ![agent] = process_task_begin(@, task, parameters)]

\* mutant of Leave: the end of process_task is written to every agent
LeaveEveryAgent(st, f, res) ==
  [a \in DOMAIN st |-> process_task_end(st[a], f.task, res)]

\* the agent state after the generation step of frame f has returned res
Leave(st, f, res) ==
  [st EXCEPT ![f.agent] = process_task_end(@, f.task, res)]

Returned(f, res) == [f EXCEPT !.phase = "returned", !.result = res]
Raised(f, e) == [f EXCEPT !.phase = "raised", !.error = e]

(***************************************************************************)
(* Workflow configurations (the constructor arguments of Workflow).         *)
(***************************************************************************)
DefaultMaxIterations == 10

Prefix(n) == [k \in 1..n |-> k]

\* agent lists: the first n agents, and one list naming the same agent twice
AgentLists == {Prefix(n) : n \in 0..MaxAgents} \cup {<<1, 1>>}

MaxIterValues == {NoInt} \cup {Some(n) : n \in (-1)..MaxIterations} \cup {Some(10)}

LoopConditions == {"None", "always_true", "always_false", "iteration_lt_3", "until_r1"}

MergeStrategies == {"None", "first", "combine", "vote"}

Config(pattern, agents, is_dict, condition, max_iterations, merge_strategy) ==
  [pattern |-> pattern, agents |-> agents, is_dict |-> is_dict,
   condition |-> condition, max_iterations |-> max_iterations,
   merge_strategy |-> merge_strategy]

SequentialConfigs ==
  {Config("sequential", a, FALSE, "None", NoInt, "None") : a \in AgentLists}

ParallelConfigs ==
  {Config("parallel", a, FALSE, "None", NoInt, m) : a \in AgentLists, m \in MergeStrategies}

LoopConfigs ==
  {Config("loop", a, FALSE, c, mi, "None") :
     a \in {Prefix(n) : n \in 0..2}, c \in LoopConditions, mi \in MaxIterValues}

\* a conditional workflow given a list: the branch keys are the list indices
ConditionalListConfigs ==
  {Config("conditional", a, FALSE, c, NoInt, "None") :
     a \in {Prefix(n) : n \in 0..2}, c \in {"None", "index_0", "index_1", "index_2"}}

\* a conditional workflow given a dict key -> agent
ConditionalDictConfigs ==
  {Config("conditional", a, TRUE, c, NoInt, "None") :
     a \in {[a |-> 1, b |-> 2], [a |-> 2, b |-> 2]},
     c \in {"None", "key_a", "key_b", "key_c", "by_input"}}

(***************************************************************************)
(* Caller-supplied condition functions.                                     *)
(***************************************************************************)
\* LOOP: condition(result, iteration) -> bool, true to continue
Condition(c, res, iter) ==
  CASE c = "always_true" -> TRUE
    [] c = "always_false" -> FALSE
    [] c = "iteration_lt_3" -> iter < 3
    [] c = "until_r1" -> Get(res, "tag", "") # "r1"

\* CONDITIONAL: condition(input_data) -> key
ConditionKey(c, input) ==
  CASE c = "key_a" -> "a"
    [] c = "key_b" -> "b"
    [] c = "key_c" -> "c"
    [] c = "by_input" -> IF "parameters" \in DOMAIN input THEN "b" ELSE "c"
    [] c = "index_0" -> 0
    [] c = "index_1" -> 1
    [] c = "index_2" -> 2

(***************************************************************************)
(* Workflow._execute_sequential                                             *)
(***************************************************************************)
\* mutant of SequentialTask: the description is read from the original input
SequentialTaskOfInput(res) == Get(input_data, "task_description", DefaultTask)

\* the arguments of agent.process_task at position i (0-based) of the chain
SequentialTask(res) == Get(res, "task_description", DefaultTask)

\* mutant of SequentialParams: {"content": result, **params}, params win
SequentialParamsKeepContent(res, i) ==
  LET params == Get(res, "parameters", <<>>)
  IN  IF i > 0 THEN Update([content |-> res], params) ELSE params

SequentialParams(res, i) ==
  LET params == Get(res, "parameters", <<>>)
  IN  IF i > 0 THEN Update(params, [content |-> res]) ELSE params

\* the loop body up to the await: enter process_task of agent i
SequentialCall(st, fr, res, i) ==
  LET agent == cfg.agents[i + 1]
      task == SequentialTask(res)
      params == SequentialParams(res, i)
  IN  /\ state' = Enter(st, agent, task, params)
      /\ frames' = Append(fr, Frame(agent, task, params, "executing"))
      /\ iteration' = i
      /\ wf_state' = "running"

ExecuteSequential ==
  /\ wf_state = "pending"
  /\ cfg.pattern = "sequential"
  /\ IF Len(cfg.agents) = 0
     THEN /\ wf_state' = "completed"
          /\ UNCHANGED <<state, frames, iteration>>
     ELSE SequentialCall(state, frames, input_data, 0)
  /\ result' = input_data
  /\ UNCHANGED <<cfg, input_data, error, gather, done_order>>
  /\ UNCHANGED <<substitution_vars, agent_vars, runtime_vars>>

\* the await of line 98 resumes only when the awaited call has returned
SequentialAwaited(fr) == fr[Len(fr)].phase = "executing"

\* mutant of SequentialResume: the next agent is started without awaiting
SequentialResumeNoAwait(res) ==
  /\ wf_state = "running"
  /\ cfg.pattern = "sequential"
  /\ Len(frames) > 0
  /\ SequentialAwaited(frames)
  /\ IF iteration + 1 < Len(cfg.agents)
     THEN SequentialCall(state, frames, res, iteration + 1)
     ELSE /\ state' = Leave(state, frames[Len(frames)], res)
          /\ frames' = [frames EXCEPT ![Len(frames)] = Returned(@, res)]
          /\ wf_state' = "completed"
          /\ UNCHANGED iteration
  /\ result' = res
  /\ UNCHANGED <<cfg, input_data, error, gather, done_order>>
  /\ UNCHANGED <<substitution_vars, agent_vars, runtime_vars>>

\* the generation step of the awaited agent returns res
SequentialResume(res) ==
  /\ wf_state = "running"
  /\ cfg.pattern = "sequential"
  /\ Len(frames) > 0
  /\ SequentialAwaited(frames)
  /\ LET k == Len(frames)
         st == Leave(state, frames[k], res)
         fr == [frames EXCEPT ![k] = Returned(@, res)]
     IN  IF iteration + 1 < Len(cfg.agents)
         THEN SequentialCall(st, fr, res, iteration + 1)
         ELSE /\ state' = st
              /\ frames' = fr
              /\ wf_state' = "completed"
              /\ UNCHANGED iteration
  /\ result' = res
  /\ UNCHANGED <<cfg, input_data, error, gather, done_order>>
  /\ UNCHANGED <<substitution_vars, agent_vars, runtime_vars>>

(***************************************************************************)
(* An exception raised by the generation step of an awaited agent           *)
(* (sequential, loop, conditional): nothing catches it.                     *)
(***************************************************************************)
\* mutant of TaskRaises: the failure rolls the agents back
TaskRaisesRollback(e) ==
  /\ wf_state = "running"
  /\ cfg.pattern \in {"sequential", "loop", "conditional"}
  /\ Len(frames) > 0
  /\ frames[Len(frames)].phase = "executing"
  /\ frames' = [frames EXCEPT ![Len(frames)] = Raised(@, e)]
  /\ wf_state' = "failed"
  /\ error' = e
  /\ result' = None
  /\ state' = [a \in Agents |-> AgentState]
  /\ UNCHANGED <<cfg, input_data, iteration, gather, done_order>>
  /\ UNCHANGED <<substitution_vars, agent_vars, runtime_vars>>

TaskRaises(e) ==
  /\ wf_state = "running"
  /\ cfg.pattern \in {"sequential", "loop", "conditional"}
  /\ Len(frames) > 0
  /\ frames[Len(frames)].phase = "executing"
  /\ frames' = [frames EXCEPT ![Len(frames)] = Raised(@, e)]
  /\ wf_state' = "failed"
  /\ error' = e
  /\ result' = None
  /\ UNCHANGED <<cfg, input_data, iteration, state, gather, done_order>>
  /\ UNCHANGED <<substitution_vars, agent_vars, runtime_vars>>

(***************************************************************************)
(* Workflow._execute_loop                                                   *)
(***************************************************************************)
\* mutant of MaxIter: a configured 0 is kept as the maximum
MaxIterZeroKept(mi) == IF mi = NoInt THEN DefaultMaxIterations ELSE mi[1]

\* max_iter = self.max_iterations or 10
MaxIter(mi) == IF mi = NoInt \/ mi[1] = 0 THEN DefaultMaxIterations ELSE mi[1]

LoopTask(res) == Get(res, "task_description", DefaultTask)

\* mutant of LoopParams: every iteration gets the parameters of the input
LoopParamsOfInput(res) == Get(input_data, "parameters", <<>>)

LoopParams(res) == Get(res, "parameters", <<>>)

\* the test of the while statement
LoopContinues(iter, max_iter) == iter < max_iter

\* mutant of LoopBreaks: the condition sees the incremented iteration counter
LoopBreaksNextIteration(c, res, iter) == c # "None" /\ ~Condition(c, res, iter + 1)

\* the break of line 134: a condition is configured and it returns false
LoopBreaks(c, res, iter) == c # "None" /\ ~Condition(c, res, iter)

\* the loop body up to the await: enter process_task of the loop agent
LoopCall(st, fr, res) ==
  LET agent == cfg.agents[1]
      task == LoopTask(res)
      params == LoopParams(res)
  IN  /\ state' = Enter(st, agent, task, params)
      /\ frames' = Append(fr, Frame(agent, task, params, "executing"))
      /\ wf_state' = "running"

ExecuteLoop ==
  /\ wf_state = "pending"
  /\ cfg.pattern = "loop"
  /\ IF Len(cfg.agents) = 0
     THEN /\ wf_state' = "failed"
          /\ error' = "ValueError"
          /\ UNCHANGED <<state, frames, result>>
     ELSE /\ IF LoopContinues(0, MaxIter(cfg.max_iterations))
             THEN LoopCall(state, frames, input_data)
             ELSE /\ wf_state' = "completed"
                  /\ UNCHANGED <<state, frames>>
          /\ result' = input_data
          /\ UNCHANGED error
  /\ iteration' = 0
  /\ UNCHANGED <<cfg, input_data, gather, done_order>>
  /\ UNCHANGED <<substitution_vars, agent_vars, runtime_vars>>

\* the generation step of the loop agent returns res
LoopResume(res) ==
  /\ wf_state = "running"
  /\ cfg.pattern = "loop"
  /\ Len(frames) > 0
  /\ frames[Len(frames)].phase = "executing"
  /\ LET k == Len(frames)
         st == Leave(state, frames[k], res)
         fr == [frames EXCEPT ![k] = Returned(@, res)]
     IN  IF LoopBreaks(cfg.condition, res, iteration)
         THEN /\ state' = st
              /\ frames' = fr
              /\ wf_state' = "completed"
              /\ UNCHANGED iteration
         ELSE /\ iteration' = iteration + 1
              /\ IF LoopContinues(iteration + 1, MaxIter(cfg.max_iterations))
                 THEN LoopCall(st, fr, res)
                 ELSE /\ state' = st
                      /\ frames' = fr
                      /\ wf_state' = "completed"
  /\ result' = res
  /\ UNCHANGED <<cfg, input_data, error, gather, done_order>>
  /\ UNCHANGED <<substitution_vars, agent_vars, runtime_vars>>

(***************************************************************************)
(* Workflow._execute_conditional                                            *)
(***************************************************************************)
\* agents_dict: the dict itself, or the list enumerated from 0
AgentsDict(agents, is_dict) ==
  IF is_dict THEN agents ELSE [i \in 0..(Len(agents) - 1) |-> agents[i + 1]]

\* agent = agents_dict.get(key): the agent of the branch, no agent otherwise
NoAgent == 0

\* mutant of Branch: the key is ignored, the first branch is taken
BranchFirst(agents_dict, key) ==
  IF key \in DOMAIN agents_dict
  THEN agents_dict[CHOOSE k \in DOMAIN agents_dict : TRUE]
  ELSE NoAgent

\* mutant of Branch: an unknown key falls back to a default agent
BranchOrDefault(agents_dict, key) ==
  IF key \in DOMAIN agents_dict THEN agents_dict[key] ELSE 1

Branch(agents_dict, key) ==
  IF key \in DOMAIN agents_dict THEN agents_dict[key] ELSE NoAgent

ConditionalTask(input) == Get(input, "task_description", DefaultTask)

ConditionalParams(input) == Get(input, "parameters", <<>>)

ExecuteConditional ==
  /\ wf_state = "pending"
  /\ cfg.pattern = "conditional"
  /\ IF cfg.condition = "None"
     THEN /\ wf_state' = "failed"
          /\ error' = "ValueError"
          /\ UNCHANGED <<state, frames>>
     ELSE LET agents_dict == AgentsDict(cfg.agents, cfg.is_dict)
              key == ConditionKey(cfg.condition, input_data)
              agent == Branch(agents_dict, key)
          IN  IF agent = NoAgent
              THEN /\ wf_state' = "failed"
                   /\ error' = "ValueError"
                   /\ UNCHANGED <<state, frames>>
              ELSE LET task == ConditionalTask(input_data)
                       params == ConditionalParams(input_data)
                   IN  /\ state' = Enter(state, agent, task, params)
                       /\ frames' = Append(frames, Frame(agent, task, params, "executing"))
                       /\ wf_state' = "running"
                       /\ UNCHANGED error
  /\ UNCHANGED <<cfg, input_data, result, iteration, gather, done_order>>
  /\ UNCHANGED <<substitution_vars, agent_vars, runtime_vars>>

\* the generation step of the selected agent returns res
ConditionalResume(res) ==
  /\ wf_state = "running"
  /\ cfg.pattern = "conditional"
  /\ Len(frames) > 0
  /\ frames[Len(frames)].phase = "executing"
  /\ state' = Leave(state, frames[Len(frames)], res)
  /\ frames' = [frames EXCEPT ![Len(frames)] = Returned(@, res)]
  /\ result' = res
  /\ wf_state' = "completed"
  /\ UNCHANGED <<cfg, input_data, error, iteration, gather, done_order>>
  /\ UNCHANGED <<substitution_vars, agent_vars, runtime_vars>>

(***************************************************************************)
(* Workflow._execute_parallel                                               *)
(***************************************************************************)
ParallelTask(input) == Get(input, "task_description", DefaultTask)

ParallelParams(input) == Get(input, "parameters", <<>>)

\* tasks = [agent.process_task(task_desc, params) for agent in self.agents]
ParallelTasks(agents, task, params) ==
  [k \in 1..Len(agents) |-> Frame(agents[k], task, params, "created")]

\* mutant of GatherResults: the results in the order the branches completed
GatherResultsByCompletion(fr, order) ==
  [k \in 1..Len(fr) |-> fr[order[k]].result]

\* the value asyncio.gather delivers: one result per awaitable, in the order
\* of the awaitables (order is the order in which the branches completed)
GatherResults(fr, order) == [k \in 1..Len(fr) |-> fr[k].result]

\* the merge of lines 111-116; results[0] of an empty list raises IndexError
MergeFails(results, strategy) == strategy = "first" /\ Len(results) = 0

\* mutant of Merge: every list of results is flagged as merged
MergeAlwaysFlagged(results, strategy) ==
  CASE strategy = "first" -> results[1]
    [] OTHER -> [results |-> results, merged |-> TRUE]

Merge(results, strategy) ==
  CASE strategy = "first" -> results[1]
    [] strategy = "combine" -> [results |-> results, merged |-> TRUE]
    [] OTHER -> [results |-> results]

\* mutant of GatherRaise: the exception of a branch is swallowed
GatherRaiseIgnored(g, e) == g

\* gather without return_exceptions: the first exception raised by a branch
\* is the outcome of the barrier
GatherRaise(g, e) ==
  IF g.state = "pending" THEN [state |-> "failed", exception |-> e] ELSE g

\* the barrier is done once every branch has returned
GatherReturn(g, fr) ==
  IF g.state = "pending" /\ \A k \in 1..Len(fr) : fr[k].phase = "returned"
  THEN [state |-> "done", exception |-> NoError]
  ELSE g

ExecuteParallel ==
  /\ wf_state = "pending"
  /\ cfg.pattern = "parallel"
  /\ LET task == ParallelTask(input_data)
         params == ParallelParams(input_data)
     IN  frames' = ParallelTasks(cfg.agents, task, params)
  /\ IF Len(cfg.agents) = 0
     THEN \* gather() of nothing is already done: execute does not suspend
          /\ gather' = [state |-> "done", exception |-> NoError]
          /\ IF MergeFails(<<>>, cfg.merge_strategy)
             THEN /\ wf_state' = "failed"
                  /\ error' = "IndexError"
                  /\ UNCHANGED result
             ELSE /\ wf_state' = "completed"
                  /\ result' = Merge(<<>>, cfg.merge_strategy)
                  /\ UNCHANGED error
     ELSE /\ gather' = [state |-> "pending", exception |-> NoError]
          /\ wf_state' = "running"
          /\ UNCHANGED <<result, error>>
  /\ UNCHANGED <<cfg, input_data, iteration, state, done_order>>
  /\ UNCHANGED <<substitution_vars, agent_vars, runtime_vars>>

\* the event loop runs the branches in the order gather scheduled them
BranchStart(k) ==
  /\ k \in 1..Len(frames)
  /\ cfg.pattern = "parallel"
  /\ frames[k].phase = "created"
  /\ \A j \in 1..(k - 1) : frames[j].phase # "created"
  /\ state' = Enter(state, frames[k].agent, frames[k].task, frames[k].parameters)
  /\ frames' = [frames EXCEPT ![k].phase = "executing"]
  /\ UNCHANGED <<cfg, input_data, wf_state, result, error, iteration, gather, done_order>>
  /\ UNCHANGED <<substitution_vars, agent_vars, runtime_vars>>

\* mutant of BranchReturn: a variable that is already stored is kept
BranchReturnKeepsStored(k, res) ==
  /\ k \in 1..Len(frames)
  /\ cfg.pattern = "parallel"
  /\ frames[k].phase = "executing"
  /\ state' = [Leave(state, frames[k], res) EXCEPT
                 ![frames[k].agent].variables = Update(@, state[frames[k].agent].variables)]
  /\ frames' = [frames EXCEPT ![k] = Returned(@, res)]
  /\ done_order' = Append(done_order, k)
  /\ gather' = GatherReturn(gather, frames')
  /\ UNCHANGED <<cfg, input_data, wf_state, result, error, iteration>>
  /\ UNCHANGED <<substitution_vars, agent_vars, runtime_vars>>

\* the generation step of branch k returns res
BranchReturn(k, res) ==
  /\ k \in 1..Len(frames)
  /\ cfg.pattern = "parallel"
  /\ frames[k].phase = "executing"
  /\ state' = Leave(state, frames[k], res)
  /\ frames' = [frames EXCEPT ![k] = Returned(@, res)]
  /\ done_order' = Append(done_order, k)
  /\ gather' = GatherReturn(gather, frames')
  /\ UNCHANGED <<cfg, input_data, wf_state, result, error, iteration>>
  /\ UNCHANGED <<substitution_vars, agent_vars, runtime_vars>>

\* mutant of BranchRaise: the branches that are still executing are cancelled
BranchRaiseCancelsOthers(k, e) ==
  /\ k \in 1..Len(frames)
  /\ cfg.pattern = "parallel"
  /\ frames[k].phase = "executing"
  /\ frames' = [j \in 1..Len(frames) |->
                 IF j = k THEN Raised(frames[j], e)
                 ELSE IF frames[j].phase = "executing"
                      THEN Raised(frames[j], "CancelledError")
                      ELSE frames[j]]
  /\ done_order' = Append(done_order, k)
  /\ gather' = GatherRaise(gather, e)
  /\ UNCHANGED <<cfg, input_data, wf_state, result, error, iteration, state>>
  /\ UNCHANGED <<substitution_vars, agent_vars, runtime_vars>>

\* the generation step of branch k raises e
BranchRaise(k, e) ==
  /\ k \in 1..Len(frames)
  /\ cfg.pattern = "parallel"
  /\ frames[k].phase = "executing"
  /\ frames' = [frames EXCEPT ![k] = Raised(@, e)]
  /\ done_order' = Append(done_order, k)
  /\ gather' = GatherRaise(gather, e)
  /\ UNCHANGED <<cfg, input_data, wf_state, result, error, iteration, state>>
  /\ UNCHANGED <<substitution_vars, agent_vars, runtime_vars>>

\* mutant of Join: execute resumes as soon as the barrier has an outcome
JoinBeforeAllStarted ==
  /\ wf_state = "running"
  /\ cfg.pattern = "parallel"
  /\ gather.state \in {"done", "failed"}
  /\ IF gather.state = "failed"
     THEN /\ wf_state' = "failed"
          /\ error' = gather.exception
          /\ UNCHANGED result
     ELSE LET results == GatherResults(frames, done_order)
          IN  IF MergeFails(results, cfg.merge_strategy)
              THEN /\ wf_state' = "failed"
                   /\ error' = "IndexError"
                   /\ UNCHANGED result
              ELSE /\ wf_state' = "completed"
                   /\ result' = Merge(results, cfg.merge_strategy)
                   /\ UNCHANGED error
  /\ UNCHANGED <<cfg, input_data, iteration, state, frames, gather, done_order>>
  /\ UNCHANGED <<substitution_vars, agent_vars, runtime_vars>>

\* execute resumes from `await asyncio.gather(...)`; the wake-up is queued
\* behind the first step of every branch
Join ==
  /\ wf_state = "running"
  /\ cfg.pattern = "parallel"
  /\ gather.state \in {"done", "failed"}
  /\ \A k \in 1..Len(frames) : frames[k].phase # "created"
  /\ IF gather.state = "failed"
     THEN /\ wf_state' = "failed"
          /\ error' = gather.exception
          /\ UNCHANGED result
     ELSE LET results == GatherResults(frames, done_order)
          IN  IF MergeFails(results, cfg.merge_strategy)
              THEN /\ wf_state' = "failed"
                   /\ error' = "IndexError"
                   /\ UNCHANGED result
              ELSE /\ wf_state' = "completed"
                   /\ result' = Merge(results, cfg.merge_strategy)
                   /\ UNCHANGED error
  /\ UNCHANGED <<cfg, input_data, iteration, state, frames, gather, done_order>>
  /\ UNCHANGED <<substitution_vars, agent_vars, runtime_vars>>

(***************************************************************************)
(* Each specification drives its own part of the state; the other parts     *)
(* stay at rest.                                                            *)
(***************************************************************************)
NoCall == [op |-> "none", phase |-> "returned"]

WorkflowAtRest ==
  /\ cfg = Config("sequential", <<>>, FALSE, "None", NoInt, "None")
  /\ input_data = <<>>
  /\ wf_state = "none"
  /\ result = None
  /\ error = NoError
  /\ iteration = 0
  /\ state = <<>>
  /\ frames = <<>>
  /\ gather = [state |-> "none", exception |-> NoError]
  /\ done_order = <<>>

SubstitutionAtRest ==
  /\ template = <<>>
  /\ context = <<>>
  /\ substituted = None
  /\ validated = None

AgentAtRest == agent_state = AgentState

RuntimeAtRest ==
  /\ runtime_agents = <<>>
  /\ runtime_teams = <<>>
  /\ runtime_workflows = <<>>

(***************************************************************************)
(* The workflow specification: one invocation of Workflow.execute.          *)
(***************************************************************************)
Init ==
  /\ \/ cfg \in SequentialConfigs
     \/ cfg \in ParallelConfigs
     \/ cfg \in LoopConfigs
     \/ cfg \in ConditionalListConfigs
     \/ cfg \in ConditionalDictConfigs
  /\ input_data \in Inputs
  /\ wf_state = "pending"
  /\ result = None
  /\ error = NoError
  /\ iteration = 0
  /\ state = [a \in Agents |-> AgentState]
  /\ frames = <<>>
  /\ gather = [state |-> "none", exception |-> NoError]
  /\ done_order = <<>>
  /\ SubstitutionAtRest
  /\ AgentAtRest
  /\ call = NoCall
  /\ RuntimeAtRest

Next ==
  \/ ExecuteSequential
  \/ \E res \in Results : SequentialResume(res)
  \/ ExecuteLoop
  \/ \E res \in Results : LoopResume(res)
  \/ ExecuteConditional
  \/ \E res \in Results : ConditionalResume(res)
  \/ \E e \in Exceptions : TaskRaises(e)
  \/ ExecuteParallel
  \/ \E k \in 1..MaxAgents : BranchStart(k)
  \/ \E k \in 1..MaxAgents, res \in Results : BranchReturn(k, res)
  \/ \E k \in 1..MaxAgents, e \in Exceptions : BranchRaise(k, e)
  \/ Join

Spec == Init /\ [][Next]_vars

(***************************************************************************)
(* Properties of the workflow engine.                                       *)
(***************************************************************************)

\* C1: in a SEQUENTIAL workflow agent 0 is invoked with the task description
\* and the parameters of the raw input, the parameters of every agent k > 0
\* hold the complete result of agent k-1 under the key "content", and
\* execute returns exactly the result of the last agent.
C1_SequentialChain ==
  cfg.pattern = "sequential" =>
    /\ Len(frames) <= Len(cfg.agents)
    /\ \A k \in 1..Len(frames) : frames[k].agent = cfg.agents[k]
    /\ Len(frames) >= 1 =>
         /\ frames[1].task = Get(input_data, "task_description", DefaultTask)
         /\ frames[1].parameters = Get(input_data, "parameters", <<>>)
    /\ \A k \in 2..Len(frames) :
         /\ "content" \in DOMAIN frames[k].parameters
         /\ frames[k].parameters["content"] = frames[k - 1].result
    /\ (wf_state = "completed" /\ Len(cfg.agents) >= 1) =>
         /\ Len(frames) = Len(cfg.agents)
         /\ frames[Len(frames)].phase = "returned"
         /\ result = frames[Len(frames)].result

\* a chain of three agents has completed, and the second agent returned a
\* result whose own parameters carry a "content" entry
C1_Witness ==
  /\ cfg.pattern = "sequential"
  /\ wf_state = "completed"
  /\ Len(frames) = 3
  /\ frames[2].result = R2
  /\ frames[3].parameters["content"] = R2
  /\ result = frames[3].result

\* C2 as stated: every agent k > 0 of a SEQUENTIAL workflow is invoked with
\* the task description and the parameters of the original input, whatever
\* the earlier agents returned.
C2_OriginalInputReachesEveryAgent ==
  cfg.pattern = "sequential" =>
    \A k \in 2..Len(frames) :
      LET params == Get(input_data, "parameters", <<>>)
      IN  /\ frames[k].task = Get(input_data, "task_description", DefaultTask)
          /\ \A key \in DOMAIN params \ {"content"} :
               /\ key \in DOMAIN frames[k].parameters
               /\ frames[k].parameters[key] = params[key]

\* C2 amended: every agent k > 0 of a SEQUENTIAL workflow is invoked with the
\* task description and the parameters found in the result of agent k-1
\* ("Process task" and no parameters when that result has no such key), in
\* addition to the key "content".
C2_PreviousResultFeedsNextAgent ==
  cfg.pattern = "sequential" =>
    \A k \in 2..Len(frames) :
      LET prev == frames[k - 1].result
          params == IF "parameters" \in DOMAIN prev THEN prev["parameters"] ELSE <<>>
      IN  /\ frames[k].task =
               IF "task_description" \in DOMAIN prev
               THEN prev["task_description"] ELSE DefaultTask
          /\ DOMAIN frames[k].parameters = DOMAIN params \cup {"content"}
          /\ \A key \in DOMAIN params \ {"content"} :
               frames[k].parameters[key] = params[key]

\* the input names task t1 with a topic, agent 0 returned a result without
\* description or parameters, and agent 1 has been invoked
C2_Witness ==
  /\ cfg.pattern = "sequential"
  /\ "task_description" \in DOMAIN input_data
  /\ Len(frames) >= 2
  /\ frames[1].result = R1
  /\ frames[2].task = DefaultTask
  /\ DOMAIN frames[2].parameters = {"content"}

\* C3: the "results" list of a PARALLEL workflow with merge_strategy
\* "combine" holds the results of the agents in agent-list order, whatever
\* the order in which the branches completed.
C3_ParallelInputOrder ==
  (cfg.pattern = "parallel" /\ cfg.merge_strategy = "combine" /\ wf_state = "completed") =>
    /\ Len(frames) = Len(cfg.agents)
    /\ "results" \in DOMAIN result
    /\ Len(result["results"]) = Len(cfg.agents)
    /\ \A k \in 1..Len(cfg.agents) :
         /\ frames[k].agent = cfg.agents[k]
         /\ frames[k].phase = "returned"
         /\ result["results"][k] = frames[k].result

\* three branches completed in the order C, A, B with different results
C3_Witness ==
  /\ cfg.pattern = "parallel"
  /\ cfg.merge_strategy = "combine"
  /\ cfg.agents = <<1, 2, 3>>
  /\ wf_state = "completed"
  /\ done_order = <<3, 1, 2>>
  /\ frames[1].result = R1
  /\ frames[3].result = R2
  /\ result["results"] = <<R1, frames[2].result, R2>>

\* C4 as stated: a LOOP workflow with max_iterations = N whose condition is
\* absent or always true invokes its agent exactly N times (10 times when
\* max_iterations is not configured), and exactly once when the condition
\* returns false after the first call.
C4_LoopRunsExactlyMaxIterations ==
  (/\ cfg.pattern = "loop"
   /\ Len(cfg.agents) >= 1
   /\ wf_state = "completed"
   /\ (cfg.max_iterations = NoInt \/ cfg.max_iterations[1] >= 0)) =>
    /\ cfg.condition \in {"None", "always_true"} =>
         Len(frames) = IF cfg.max_iterations = NoInt THEN 10 ELSE cfg.max_iterations[1]
    /\ cfg.condition = "always_false" => Len(frames) = 1

\* C4 for the values that are not treated as "not configured": with
\* max_iterations = N >= 1 the counts of the claim hold
C4_LoopCountsForPositiveMax ==
  (/\ cfg.pattern = "loop"
   /\ Len(cfg.agents) >= 1
   /\ wf_state = "completed"
   /\ (cfg.max_iterations = NoInt \/ cfg.max_iterations[1] >= 1)) =>
    /\ cfg.condition \in {"None", "always_true"} =>
         Len(frames) = IF cfg.max_iterations = NoInt THEN 10 ELSE cfg.max_iterations[1]
    /\ cfg.condition = "always_false" => Len(frames) = 1

\* C5 as stated: with max_iterations = 10 and the condition iteration < 3 the
\* loop returns after exactly 3 calls of process_task, the counter at 3.
C5_LoopReturnsAfterThreeCalls ==
  (/\ cfg.pattern = "loop"
   /\ Len(cfg.agents) >= 1
   /\ cfg.max_iterations = Some(10)
   /\ cfg.condition = "iteration_lt_3"
   /\ wf_state = "completed") =>
    /\ Len(frames) = 3
    /\ Len(state[cfg.agents[1]].completed_tasks) = 3

\* C5 amended: with max_iterations = 10 and the condition iteration < 3 the
\* loop returns after exactly 4 calls of process_task with the counter at 4:
\* the condition is evaluated after each call with the zero-based index of
\* that call, so it is first false after the fourth call.
C5_LoopReturnsAfterFourCalls ==
  (/\ cfg.pattern = "loop"
   /\ Len(cfg.agents) >= 1
   /\ cfg.max_iterations = Some(10)
   /\ cfg.condition = "iteration_lt_3") =>
    /\ Len(frames) <= 4
    /\ wf_state = "completed" =>
         /\ Len(frames) = 4
         /\ \A k \in 1..4 : frames[k].phase = "returned" /\ frames[k].agent = cfg.agents[1]
         /\ Len(state[cfg.agents[1]].completed_tasks) = 4
         /\ iteration = 3

\* the loop of the scenario has returned
C5_Witness ==
  /\ cfg.pattern = "loop"
  /\ cfg.agents = <<1>>
  /\ cfg.max_iterations = Some(10)
  /\ cfg.condition = "iteration_lt_3"
  /\ wf_state = "completed"
  /\ Len(state[1].completed_tasks) = 4

\* C6: when the condition of a CONDITIONAL workflow returns a key of the
\* branch map, process_task of exactly the agent mapped to that key is invoked,
\* exactly once, with the task description and parameters of the raw input;
\* no other branch agent is touched; execute returns that agent's result.
C6_ConditionalSingleBranch ==
  (cfg.pattern = "conditional" /\ cfg.condition # "None") =>
    LET key == ConditionKey(cfg.condition, input_data)
        keys == IF cfg.is_dict THEN DOMAIN cfg.agents ELSE 0..(Len(cfg.agents) - 1)
        selected == IF cfg.is_dict THEN cfg.agents[key] ELSE cfg.agents[key + 1]
    IN  key \in keys =>
          /\ \A a \in Agents \ {selected} : state[a] = AgentState
          /\ Len(frames) <= 1
          /\ wf_state # "pending" =>
               /\ Len(frames) = 1
               /\ frames[1].agent = selected
               /\ frames[1].task = Get(input_data, "task_description", DefaultTask)
               /\ frames[1].parameters = Get(input_data, "parameters", <<>>)
               /\ error # "ValueError"
          /\ wf_state = "completed" =>
               /\ frames[1].phase = "returned"
               /\ result = frames[1].result
               /\ state[selected].completed_tasks = <<frames[1].task.task_id>>

\* the condition returned "b", the agent of branch "b" ran once and returned,
\* the agent of branch "a" is untouched
C6_Witness ==
  /\ cfg.pattern = "conditional"
  /\ cfg.is_dict
  /\ cfg.agents = [a |-> 1, b |-> 2]
  /\ cfg.condition = "key_b"
  /\ wf_state = "completed"
  /\ frames[1].agent = 2
  /\ result = R2
  /\ state[2].status = "completed"
  /\ state[1] = AgentState

\* C7: a CONDITIONAL workflow whose condition returns a key without branch and
\* a LOOP workflow without agents end in an error at execute time; no
\* process_task is invoked and no agent state changes.
C7_StructuralErrorsFailFast ==
  LET no_loop_agent == cfg.pattern = "loop" /\ Len(cfg.agents) = 0
      no_branch ==
        /\ cfg.pattern = "conditional"
        /\ cfg.condition # "None"
        /\ LET key == ConditionKey(cfg.condition, input_data)
               keys == IF cfg.is_dict THEN DOMAIN cfg.agents
                       ELSE 0..(Len(cfg.agents) - 1)
           IN  key \notin keys
  IN  (no_loop_agent \/ no_branch) =>
        /\ wf_state \in {"pending", "failed"}
        /\ wf_state = "failed" => error = "ValueError" /\ result = None
        /\ frames = <<>>
        /\ state = [a \in Agents |-> AgentState]

\* the condition returned the key "c" that has no branch and execute failed
C7_Witness ==
  /\ cfg.pattern = "conditional"
  /\ cfg.is_dict
  /\ cfg.condition = "key_c"
  /\ wf_state = "failed"
  /\ error = "ValueError"
  /\ frames = <<>>

\* C8: when a branch of a PARALLEL workflow raises, the barrier fails with the
\* exception of the branch that raised first, execute never completes and
\* returns no result map, whatever the merge strategy and however many other
\* branches returned.
C8_ParallelAllOrNothing ==
  cfg.pattern = "parallel" =>
    LET raised == {j \in 1..Len(done_order) : frames[done_order[j]].phase = "raised"}
    IN  raised # {} =>
          LET first == done_order[CHOOSE j \in raised : \A i \in raised : j <= i]
          IN  /\ gather.state = "failed"
              /\ gather.exception = frames[first].error
              /\ wf_state \in {"running", "failed"}
              /\ result = None
              /\ wf_state = "failed" => error = frames[first].error

\* three branches with merge_strategy "first": the first two returned, the
\* third raised, and execute failed with that exception
C8_Witness ==
  /\ cfg.pattern = "parallel"
  /\ cfg.merge_strategy = "first"
  /\ Len(frames) = 3
  /\ frames[1].phase = "returned"
  /\ frames[2].phase = "returned"
  /\ frames[3].phase = "raised"
  /\ wf_state = "failed"
  /\ error = frames[3].error
  /\ result = None

\* C9 (state part): when agent k of a SEQUENTIAL workflow raises, execute has
\* failed with the same exception, the failed call is the last call made, and
\* every earlier agent still holds what its call wrote.
C9_FailedChainState ==
  cfg.pattern = "sequential" =>
    \A k \in 1..Len(frames) :
      frames[k].phase = "raised" =>
        /\ k = Len(frames)
        /\ k = iteration + 1
        /\ wf_state = "failed"
        /\ error = frames[k].error
        /\ \A j \in 1..(k - 1) :
             LET st == state[frames[j].agent]
                 task == frames[j].task
             IN  /\ frames[j].phase = "returned"
                 /\ \E n \in 1..Len(st.completed_tasks) : st.completed_tasks[n] = task.task_id
                 /\ task.output_key # "None" => task.output_key \in DOMAIN st.variables
        /\ \A a \in Agents :
             Len(state[a].completed_tasks) =
               Cardinality({j \in 1..Len(frames) :
                              frames[j].agent = a /\ frames[j].phase = "returned"})

\* C9 (step part): the step in which a SEQUENTIAL workflow fails changes no
\* agent state, and after the failure no agent is invoked and nothing changes.
C9_FailedChainStep ==
  cfg.pattern = "sequential" =>
    /\ wf_state' = "failed" => state' = state /\ Len(frames') = Len(frames)
    /\ wf_state = "failed" => UNCHANGED vars

\* C9: if process_task of agent k raises during a SEQUENTIAL workflow, execute
\* raises the same exception, agent k is not retried, agents k+1.. are never
\* invoked, and what agents 0..k-1 wrote stays as it was (no rollback).
C9_SequentialNoRetryNoRollback ==
  []C9_FailedChainState /\ [][C9_FailedChainStep]_vars

\* the third agent of a chain raised after the first two wrote their results
C9_Witness ==
  /\ cfg.pattern = "sequential"
  /\ cfg.agents = <<1, 2, 3>>
  /\ wf_state = "failed"
  /\ Len(frames) = 3
  /\ frames[3].phase = "raised"
  /\ error = frames[3].error
  /\ state[1].variables = [draft |-> frames[1].result]
  /\ state[2].completed_tasks # <<>>
  /\ state[3].status = "working"

\* C10: in SEQUENTIAL and LOOP workflows the call of step n+1 does not start
\* before the call of step n has returned its result.
C10_StepsStrictlyOrdered ==
  cfg.pattern \in {"sequential", "loop"} =>
    /\ \A k \in 2..Len(frames) :
         /\ frames[k - 1].phase = "returned"
         /\ frames[k - 1].result # None
    /\ Cardinality({k \in 1..Len(frames) : frames[k].phase = "executing"}) <= 1

\* the second step of a chain is executing after the first has returned
C10_Witness ==
  /\ cfg.pattern = "sequential"
  /\ Len(frames) = 2
  /\ frames[1].phase = "returned"
  /\ frames[2].phase = "executing"

(***************************************************************************)
(* The agent specification: one StatefulAgent whose methods are called      *)
(* directly, one call at a time.  `call` is the method called last with     *)
(* what it was given and what it produced; process_task is suspended in     *)
(* the generation step while call.phase is "executing".                     *)
(***************************************************************************)
MaxCalls == 2

\* AgentTask.prompt: "{k} {j}"
Prompt == <<"{", "k", "}", " ", "{", "j", "}">>

TaskPlain == [task_id |-> "plain", prompt |-> Prompt, parameters |-> <<>>, output_key |-> "None"]
TaskParam ==
  [task_id |-> "param", prompt |-> Prompt, parameters |-> [k |-> Str(<<"t">>)], output_key |-> "out"]
TaskStore == [task_id |-> "store", prompt |-> Prompt, parameters |-> <<>>, output_key |-> "k"]
AgentTasks == {TaskPlain, TaskParam, TaskStore}

\* arguments of update_parameters and set_variable
ParameterUpdates == {[k |-> Str(<<"p">>)]}
VariableValues == {Str(<<"v">>)}

\* the optional `parameters` argument of process_task
ExtraParameters == {<<>>, [k |-> Str(<<"x">>)], [j |-> Str(<<"x">>)]}

\* mutant of prepare_task_context: the variables are merged last
prepare_task_context_variables_last(st, task) ==
  Update(Update(st.parameters, task.parameters), st.variables)

\* StatefulAgent.prepare_task_context
prepare_task_context(st, task) ==
  LET with_variables == Update(st.parameters, st.variables)
  IN  IF task.parameters # <<>> THEN Update(with_variables, task.parameters) ELSE with_variables

\* StatefulAgent.substitute_task_prompt
substitute_task_prompt(st, task) ==
  substitute_variables(task.prompt, prepare_task_context(st, task))

\* StatefulAgent._execute_task as StatefulAgent defines it
DefaultResult(task, resolved_prompt) ==
  [task_id |-> task.task_id, prompt |-> Str(resolved_prompt), status |-> "completed"]

\* a result returned by a subclass that overrides _execute_task
Generated == [text |-> Str(<<"g">>)]



\* StatefulAgent.update_parameters called by a client
UpdateParameters(updates) ==
  /\ call.phase # "executing"
  /\ agent_state' = update_parameters(agent_state, updates)
  /\ call' = [op |-> "update_parameters", phase |-> "returned"]
  /\ UNCHANGED <<workflow_vars, substitution_vars, runtime_vars>>

\* StatefulAgent.set_variable called by a client
SetVariable(key, value) ==
  /\ call.phase # "executing"
  /\ agent_state' = set_variable(agent_state, key, value)
  /\ call' = [op |-> "set_variable", phase |-> "returned"]
  /\ UNCHANGED <<workflow_vars, substitution_vars, runtime_vars>>

\* StatefulAgent.prepare_task_context called by a client
PrepareTaskContext(task) ==
  /\ call.phase # "executing"
  /\ call' = [op |-> "prepare_task_context", phase |-> "returned", task |-> task,
              context |-> prepare_task_context(agent_state, task)]
  /\ UNCHANGED <<agent_state, workflow_vars, substitution_vars, runtime_vars>>

\* process_task(task, parameters) up to its suspension in _execute_task
ProcessTask(task, parameters) ==
  /\ call.phase # "executing"
  /\ Len(agent_state.completed_tasks) < MaxCalls
  /\ LET st == process_task_begin(agent_state, task, parameters)
     IN  /\ agent_state' = st
         /\ call' = [op |-> "process_task", phase |-> "executing", task |-> task,
                     parameters |-> parameters,
                     context |-> prepare_task_context(st, task),
                     prompt |-> substitute_task_prompt(st, task),
                     result |-> None, error |-> NoError]
  /\ UNCHANGED <<workflow_vars, substitution_vars, runtime_vars>>

\* the generation step returns and process_task runs to its end
TaskReturns(default) ==
  /\ call.op = "process_task"
  /\ call.phase = "executing"
  /\ LET res == IF default THEN DefaultResult(call.task, call.prompt) ELSE Generated
     IN  /\ agent_state' = process_task_end(agent_state, call.task, res)
         /\ call' = [call EXCEPT !.phase = "returned", !.result = res]
  /\ UNCHANGED <<workflow_vars, substitution_vars, runtime_vars>>

\* mutant of TaskFails: the failed task is cleaned up before the exception
\* leaves process_task
TaskFailsCleansUp(e) ==
  /\ call.op = "process_task"
  /\ call.phase = "executing"
  /\ call' = [call EXCEPT !.phase = "raised", !.error = e]
  /\ agent_state' = [agent_state EXCEPT !.current_task = "None"]
  /\ UNCHANGED <<workflow_vars, substitution_vars, runtime_vars>>

\* the generation step raises: nothing in process_task catches it
TaskFails(e) ==
  /\ call.op = "process_task"
  /\ call.phase = "executing"
  /\ call' = [call EXCEPT !.phase = "raised", !.error = e]
  /\ UNCHANGED <<agent_state, workflow_vars, substitution_vars, runtime_vars>>

AgentInit ==
  /\ agent_state = AgentState
  /\ call = NoCall
  /\ WorkflowAtRest
  /\ SubstitutionAtRest
  /\ RuntimeAtRest

AgentNext ==
  \/ \E updates \in ParameterUpdates : UpdateParameters(updates)
  \/ \E value \in VariableValues : SetVariable("k", value)
  \/ \E task \in AgentTasks : PrepareTaskContext(task)
  \/ \E task \in AgentTasks, parameters \in ExtraParameters : ProcessTask(task, parameters)
  \/ \E default \in BOOLEAN : TaskReturns(default)
  \/ \E e \in Exceptions : TaskFails(e)

AgentSpec == AgentInit /\ [][AgentNext]_vars

(***************************************************************************)
(* Claims about process_task and the task context.                          *)
(***************************************************************************)
\* a step in which the generation step returns and process_task completes
ProcessTaskSucceeds ==
  call.op = "process_task" /\ call.phase = "executing" /\ call'.phase = "returned"

\* a step in which the generation step raises out of process_task
ProcessTaskRaises ==
  call.op = "process_task" /\ call.phase = "executing" /\ call'.phase = "raised"

\* a step in which process_task is entered and runs up to the generation step
ProcessTaskEntered ==
  call.phase # "executing" /\ call'.op = "process_task" /\ call'.phase = "executing"

\* C11 (first part): while the generation step of process_task runs, the
\* status of the agent is WORKING.
C11_WorkingWhileGenerating ==
  (call.op = "process_task" /\ call.phase = "executing") => agent_state.status = "working"

\* C11 (second part): when process_task returns, the status is COMPLETED, the
\* current task is cleared, task.id has been appended once to the completed
\* tasks, and the returned result is stored under the output key of the task,
\* the variables being unchanged when the task declares no output key.
C11_SuccessStep ==
  ProcessTaskSucceeds =>
    LET task == call.task
    IN  /\ agent_state'.status = "completed"
        /\ agent_state'.current_task = "None"
        /\ agent_state'.completed_tasks = Append(agent_state.completed_tasks, task.task_id)
        /\ IF task.output_key # "None"
           THEN /\ DOMAIN agent_state'.variables =
                     DOMAIN agent_state.variables \cup {task.output_key}
                /\ agent_state'.variables[task.output_key] = call'.result
                /\ \A key \in DOMAIN agent_state.variables \ {task.output_key} :
                     agent_state'.variables[key] = agent_state.variables[key]
           ELSE agent_state'.variables = agent_state.variables

\* C11: a successful process_task on a stateful agent is WORKING during the
\* generation step and ends COMPLETED with the task recorded once and its
\* result stored under the declared output key only.
C11_SuccessfulProcessTask ==
  []C11_WorkingWhileGenerating /\ [][C11_SuccessStep]_vars

\* two tasks have completed: one with an output key, whose result is in the
\* variables, and one without
C11_Witness ==
  /\ call.op = "process_task"
  /\ call.phase = "returned"
  /\ call.task = TaskPlain
  /\ agent_state.status = "completed"
  /\ agent_state.completed_tasks = <<"param", "plain">>
  /\ DOMAIN agent_state.variables = {"out"}
  /\ agent_state.variables["out"] = Generated

\* C12: when the generation step of process_task raises, the status of the
\* agent is ERROR when the exception reaches the caller.
C12_FailureSetsError ==
  [][ProcessTaskRaises => agent_state'.status = "error"]_vars

\* the context that the claim describes: task parameter over variable over
\* agent parameter
PrecedenceContext(ctx, st, task) ==
  /\ DOMAIN ctx = DOMAIN st.parameters \cup DOMAIN st.variables \cup DOMAIN task.parameters
  /\ \A key \in DOMAIN ctx :
       ctx[key] = IF key \in DOMAIN task.parameters THEN task.parameters[key]
                  ELSE IF key \in DOMAIN st.variables THEN st.variables[key]
                  ELSE st.parameters[key]

\* C13 (prepare_task_context): the context is the union by precedence and
\* building it leaves the agent and the task as they were.
C13_PrepareStep ==
  call'.op = "prepare_task_context" =>
    /\ PrecedenceContext(call'.context, agent_state, call'.task)
    /\ agent_state' = agent_state
    /\ call'.task \in AgentTasks

\* C13 (process_task): the prompt handed to the generation step is the task
\* prompt resolved against the union by precedence of the agent's stores.
C13_ResolveStep ==
  ProcessTaskEntered =>
    /\ PrecedenceContext(call'.context, agent_state', call'.task)
    /\ call'.prompt = substitute_variables(call'.task.prompt, call'.context)
    /\ call'.task \in AgentTasks

\* C13: the context against which the placeholders of a task prompt are
\* resolved is the union of agent parameters, agent variables and task
\* parameters, the task parameter winning over the variable and the variable
\* over the agent parameter; building it modifies none of them.
C13_TaskContextPrecedence ==
  [][C13_PrepareStep /\ C13_ResolveStep]_vars

\* the key k is an agent parameter, a variable and a task parameter at once
\* and the context built for the task holds the task parameter
C13_Witness ==
  /\ call.op = "prepare_task_context"
  /\ call.task = TaskParam
  /\ "k" \in DOMAIN agent_state.parameters
  /\ "k" \in DOMAIN agent_state.variables
  /\ call.context["k"] = Str(<<"t">>)

\* C14: a value passed in the extra context of process_task is, for its key,
\* the value of the context used to resolve the prompt of that execution.
C14_ExtraContextWins ==
  [][ProcessTaskEntered =>
       \A key \in DOMAIN call'.parameters :
         call'.context[key] = call'.parameters[key]]_vars

(***************************************************************************)
(* The substitution specification: substitute_variables and                 *)
(* validate_variables applied to one template and one context.  A template  *)
(* is put together from pieces: text without a placeholder, and             *)
(* placeholders.                                                            *)
(***************************************************************************)
Literals == { <<"x">>, <<"}">>, <<"{", "}">> }

Placeholders ==
  { <<"{", "a", "}">>,
    <<"{", "b", "}">>,
    <<"{", "a", ".", "b", "}">>,
    <<"{", "a", ".", "b", ".", "a", "}">>,
    <<"{", "a", ".", "}">> }

Pieces == Literals \cup Placeholders

Templates == UNION { [1..n -> Pieces] : n \in 0..MaxPieces }

Contexts ==
  { <<>>,
    [a |-> Str(<<"1">>)],
    [a |-> [b |-> Str(<<"2">>)]],
    [a |-> [b |-> [a |-> Str(<<"3">>)]], b |-> Str(<<"4">>)],
    [a |-> [b |-> None]],
    [a |-> None],
    [a |-> Str(<<"{", "a", "}">>)],
    [a |-> <<>>],
    [a |-> ("" :> Str(<<"6">>))],
    ("a.b" :> Str(<<"5">>)) }

\* the text of a template
RECURSIVE Flatten(_)
Flatten(pieces) == IF pieces = <<>> THEN <<>> ELSE pieces[1] \o Flatten(Tail(pieces))

\* substitute_variables(template, context) is called
Substitute ==
  /\ substituted = None
  /\ substituted' = [text |-> substitute_variables(Flatten(template), context)]
  /\ UNCHANGED <<template, context, validated, workflow_vars, agent_vars, runtime_vars>>

\* validate_variables(template, context) is called
Validate ==
  /\ validated = None
  /\ validated' = validate_variables(Flatten(template), context)
  /\ UNCHANGED <<template, context, substituted, workflow_vars, agent_vars, runtime_vars>>

SubstitutionInit ==
  /\ template \in Templates
  /\ context \in Contexts
  /\ substituted = None
  /\ validated = None
  /\ WorkflowAtRest
  /\ AgentAtRest
  /\ call = NoCall
  /\ RuntimeAtRest

SubstitutionNext ==
  \/ Substitute
  \/ Validate

SubstitutionSpec == SubstitutionInit /\ [][SubstitutionNext]_vars

(***************************************************************************)
(* Claims about substitution and validation.                                *)
(***************************************************************************)
IsPlaceholder(piece) == piece \in Placeholders

\* the dotted path that a placeholder names: one segment for a plain name
PathOf(piece) == Split(SubSeq(piece, 2, Len(piece) - 1))

\* the path can be walked through nested maps down to a stored value
RECURSIVE Resolves(_, _)
Resolves(value, path) ==
  IF path = <<>> THEN TRUE
  ELSE /\ IsDict(value)
       /\ Cat(path[1]) \in DOMAIN value
       /\ Resolves(value[Cat(path[1])], Tail(path))

RECURSIVE ValueAt(_, _)
ValueAt(value, path) ==
  IF path = <<>> THEN value ELSE ValueAt(value[Cat(path[1])], Tail(path))

\* what the claim puts in the output for one piece of the template
Substituted(piece, variables) ==
  IF IsPlaceholder(piece) /\ Resolves(variables, PathOf(piece))
  THEN StrOf(ValueAt(variables, PathOf(piece)))
  ELSE piece

\* C15: substitute replaces every placeholder whose name or dotted path
\* resolves in the context by the string form of the resolved value, leaves
\* every other placeholder and all text outside placeholders as they are, in
\* order, and raises no error.
C15_SubstituteResolvedOnly ==
  substituted # None =>
    substituted.text =
      Flatten([k \in 1..Len(template) |-> Substituted(template[k], context)])

\* "x{a.b}{b}{a.b.a}" over {a: {b: {a: "3"}}, b: "4"}: one placeholder
\* resolves to a map, one to "4", one through three segments to "3"
C15_Witness ==
  /\ substituted # None
  /\ template = << <<"{", "a", ".", "b", ".", "a", "}">>, <<"x">>, <<"{", "b", "}">> >>
  /\ context = [a |-> [b |-> [a |-> Str(<<"3">>)]], b |-> Str(<<"4">>)]
  /\ substituted.text = <<"3", "x", "4">>

\* the names that the claim lists as missing: those of the placeholders whose
\* name or path does not resolve, in template order
RECURSIVE AbsentNames(_, _)
AbsentNames(pieces, variables) ==
  IF pieces = <<>> THEN <<>>
  ELSE (IF IsPlaceholder(pieces[1]) /\ ~Resolves(variables, PathOf(pieces[1]))
        THEN <<Cat(SubSeq(pieces[1], 2, Len(pieces[1]) - 1))>> ELSE <<>>)
       \o AbsentNames(Tail(pieces), variables)

\* C16: validate returns (ok, missing) where missing lists exactly the
\* placeholder names of the template that are absent from the context and ok
\* is true exactly when missing is empty.
C16_MissingAreTheAbsentNames ==
  validated # None =>
    /\ validated.missing = AbsentNames(template, context)
    /\ validated.ok = (validated.missing = <<>>)

(***************************************************************************)
(* Claims about the merge of a parallel workflow and about the loop.        *)
(***************************************************************************)
\* C17: what a PARALLEL workflow returns is determined by merge_strategy
\* alone: "first" returns the result of the first agent of the list only,
\* "combine" returns the list of all results with the flag merged, and every
\* other value (no strategy, "vote") returns the list of all results under
\* "results" and nothing else.
C17_MergeByStrategy ==
  (cfg.pattern = "parallel" /\ wf_state = "completed") =>
    LET all == [k \in 1..Len(frames) |-> frames[k].result]
    IN  /\ Len(frames) = Len(cfg.agents)
        /\ cfg.merge_strategy = "first" => result = frames[1].result
        /\ cfg.merge_strategy = "combine" =>
             /\ DOMAIN result = {"results", "merged"}
             /\ result["results"] = all
             /\ result["merged"] = TRUE
        /\ cfg.merge_strategy \notin {"first", "combine"} =>
             /\ DOMAIN result = {"results"}
             /\ result["results"] = all

\* "vote" over two agents that returned different results: both are listed
\* and there is no merged flag
C17_Witness ==
  /\ cfg.pattern = "parallel"
  /\ cfg.merge_strategy = "vote"
  /\ cfg.agents = <<1, 2>>
  /\ wf_state = "completed"
  /\ frames[1].result = R2
  /\ frames[2].result = R1
  /\ result = [results |-> <<R2, R1>>]

\* C18: in a LOOP workflow every iteration after the first invokes the agent
\* with the task description and parameters of the result that the previous
\* iteration returned, and execute returns the result of the last iteration
\* that ran.
C18_LoopFeedsPreviousResult ==
  (cfg.pattern = "loop" /\ Len(frames) > 0) =>
    /\ \A k \in 2..Len(frames) :
         /\ frames[k - 1].phase = "returned"
         /\ frames[k].agent = cfg.agents[1]
         /\ frames[k].task = Get(frames[k - 1].result, "task_description", DefaultTask)
         /\ frames[k].parameters = Get(frames[k - 1].result, "parameters", <<>>)
    /\ wf_state = "completed" =>
         /\ frames[Len(frames)].phase = "returned"
         /\ result = frames[Len(frames)].result

\* the first iteration returned R2, so the second one ran task t2 with the
\* parameters of R2, returned R1, and execute returned R1
C18_Witness ==
  /\ cfg.pattern = "loop"
  /\ wf_state = "completed"
  /\ Len(frames) = 2
  /\ frames[1].task = T1
  /\ frames[1].result = R2
  /\ frames[2].task = T2
  /\ frames[2].parameters = R2.parameters
  /\ frames[2].result = R1
  /\ result = R1

\* C19 as stated: a LOOP workflow with at least one agent has invoked
\* process_task at least once when execute returns, whatever max_iterations
\* and the condition are.
C19_LoopRunsAtLeastOnce ==
  (cfg.pattern = "loop" /\ Len(cfg.agents) >= 1 /\ wf_state = "completed") =>
    Len(frames) >= 1

\* C19 amended: the loop has invoked process_task at least once when execute
\* returns unless max_iterations is negative; with a negative max_iterations
\* the agent is never invoked and execute returns its input.
C19_LoopRunsOnceUnlessNegativeMax ==
  (cfg.pattern = "loop" /\ Len(cfg.agents) >= 1 /\ wf_state = "completed") =>
    IF cfg.max_iterations # NoInt /\ cfg.max_iterations[1] < 0
    THEN Len(frames) = 0 /\ result = input_data
    ELSE Len(frames) >= 1

\* a loop whose condition is false after the first call has returned after
\* one call
C19_Witness ==
  /\ cfg.pattern = "loop"
  /\ cfg.max_iterations = NoInt
  /\ cfg.condition = "always_false"
  /\ wf_state = "completed"
  /\ Len(frames) = 1
  /\ frames[1].phase = "returned"

(***************************************************************************)
(* The runtime specification: the registries of one AgentRuntime.  An       *)
(* agent is known by its id; a TeamMetadata is its name, its role slots and *)
(* the ids of the agents that fill them.                                    *)
(***************************************************************************)
MaxSlots == 2

Roles == {"writer", "editor"}

TeamNames == {"pool"}

\* the role slots of a team
RoleSlots == UNION { [1..n -> Roles] : n \in 0..MaxSlots }

\* the agent_configs argument of create_team: role -> AgentConfig
AgentConfigs ==
  { <<>>,
    [writer |-> [role |-> "writer"]],
    [writer |-> [role |-> "writer"], editor |-> [role |-> "editor"]] }

\* ids under which a client creates agents of its own
AgentIds == {"a1", "pool_writer_0"}

TeamMetadata(name, roles, agent_ids) ==
  [name |-> name, roles |-> roles, agent_ids |-> agent_ids]

Range(seq) == {seq[k] : k \in 1..Len(seq)}

\* f"{team_metadata.name}_{role}_{idx}"
AgentId(name, role, idx) == name \o "_" \o role \o "_" \o ToString(idx)

\* mutant of create_agent: the created agent is not put in the registry
create_agent_unregistered(registry, agent_id) == registry

\* AgentRuntime.create_agent: the agent is constructed and registered under
\* its id, replacing an agent already registered under that id
create_agent(registry, agent_id) ==
  Update(registry, [id \in {agent_id} |-> AgentState])

\* the loop of create_team over the role slots from index idx on
RECURSIVE CreateSlots(_, _, _, _, _)
CreateSlots(registry, team_metadata, agent_configs, idx, team_agents) ==
  IF idx >= Len(team_metadata.roles)
  THEN [agents |-> registry, team_metadata |-> team_metadata, team_agents |-> team_agents]
  ELSE LET role == team_metadata.roles[idx + 1]
       IN  IF role \notin DOMAIN agent_configs
           THEN CreateSlots(registry, team_metadata, agent_configs, idx + 1, team_agents)
           ELSE LET agent_id == AgentId(team_metadata.name, role, idx)
                    tracked == IF agent_id \in Range(team_metadata.agent_ids)
                               THEN team_metadata
                               ELSE [team_metadata EXCEPT !.agent_ids = Append(@, agent_id)]
                IN  CreateSlots(create_agent(registry, agent_id), tracked, agent_configs,
                                idx + 1, Append(team_agents, agent_id))

\* AgentRuntime.create_team
create_team(registry, team_metadata, agent_configs) ==
  CreateSlots(registry, team_metadata, agent_configs, 0, <<>>)

\* the TeamMetadata objects that a client builds and hands to create_team:
\* one without agent ids, or one that already lists an id
TeamInputs ==
  { TeamMetadata(name, roles, agent_ids) :
      name \in TeamNames, roles \in RoleSlots, agent_ids \in {<<>>, <<"ghost">>} }

\* runtime.create_agent(agent_id, config) is called
CreateAgent(agent_id) ==
  /\ call.phase # "executing"
  /\ runtime_agents' = create_agent(runtime_agents, agent_id)
  /\ call' = [op |-> "create_agent", phase |-> "returned", agent_id |-> agent_id]
  /\ UNCHANGED <<runtime_teams, runtime_workflows, agent_state, workflow_vars, substitution_vars>>

\* runtime.create_team(team_metadata, agent_configs) is called
CreateTeam(team_metadata, agent_configs) ==
  /\ call.phase # "executing"
  /\ LET created == create_team(runtime_agents, team_metadata, agent_configs)
     IN  /\ runtime_agents' = created.agents
         /\ runtime_teams' =
              Update(runtime_teams, [name \in {team_metadata.name} |-> created.team_metadata])
         /\ call' = [op |-> "create_team", phase |-> "returned",
                     team_metadata |-> team_metadata, agent_configs |-> agent_configs,
                     team_agents |-> created.team_agents]
  /\ UNCHANGED <<runtime_workflows, agent_state, workflow_vars, substitution_vars>>

\* runtime.create_team is called again with a registered TeamMetadata, the
\* object that an earlier create_team filled
CreateTeamAgain(name, agent_configs) ==
  /\ name \in DOMAIN runtime_teams
  /\ CreateTeam(runtime_teams[name], agent_configs)

(***************************************************************************)
(* Lookups, execution, reset and shutdown of the runtime.  The runtime is   *)
(* called by one client, one call at a time; execute_task_with_agent is     *)
(* suspended in the generation step while call.phase is "executing".        *)
(***************************************************************************)
\* the ids and names that a client asks for: registered ones and others
LookupIds == {"a1", "pool_writer_0", "nobody"}

WorkflowNames == {"wf", "nothing"}

\* a Workflow that a client registers: SEQUENTIAL without agents
RegisteredWorkflow(name) ==
  [name |-> name, workflow |-> Config("sequential", <<>>, FALSE, "None", NoInt, "None")]

\* the tasks and optional parameters handed to execute_task_with_agent
RuntimeTasks == {TaskPlain, TaskParam}

RuntimeParameters == {<<>>, [k |-> Str(<<"x">>)]}

\* mutant of get_agent: an unknown id yields a fresh agent
get_agent_or_fresh(registry, agent_id) == Get(registry, agent_id, AgentState)

\* self.agents.get(agent_id)
get_agent(registry, agent_id) == Get(registry, agent_id, None)

\* mutant of reset_agent_state: the completed tasks are kept
reset_agent_state_keeps_history(st) ==
  [st EXCEPT !.variables = <<>>, !.current_task = "None"]

\* the body of reset_agent on a StatefulAgent: clear_variables(),
\* completed_tasks.clear(), current_task = None
reset_agent_state(st) ==
  [st EXCEPT !.variables = <<>>, !.completed_tasks = <<>>, !.current_task = "None"]

\* runtime.get_agent(agent_id)
GetAgent(agent_id) ==
  /\ call.phase # "executing"
  /\ call' = [op |-> "get_agent", phase |-> "returned", agent_id |-> agent_id,
              result |-> get_agent(runtime_agents, agent_id)]
  /\ UNCHANGED <<runtime_vars, agent_state, workflow_vars, substitution_vars>>

\* runtime.get_team(team_name)
GetTeam(team_name) ==
  /\ call.phase # "executing"
  /\ call' = [op |-> "get_team", phase |-> "returned", team_name |-> team_name,
              result |-> Get(runtime_teams, team_name, None)]
  /\ UNCHANGED <<runtime_vars, agent_state, workflow_vars, substitution_vars>>

\* runtime.get_workflow(workflow_name)
GetWorkflow(workflow_name) ==
  /\ call.phase # "executing"
  /\ call' = [op |-> "get_workflow", phase |-> "returned", workflow_name |-> workflow_name,
              result |-> Get(runtime_workflows, workflow_name, None)]
  /\ UNCHANGED <<runtime_vars, agent_state, workflow_vars, substitution_vars>>

\* runtime.register_workflow(workflow): the workflow is stored, then the log
\* line reads workflow.pattern, which a Workflow does not have
RegisterWorkflow(name) ==
  /\ call.phase # "executing"
  /\ runtime_workflows' = Update(runtime_workflows, [n \in {name} |-> RegisteredWorkflow(name)])
  /\ call' = [op |-> "register_workflow", phase |-> "raised", workflow_name |-> name,
              error |-> "AttributeError"]
  /\ UNCHANGED <<runtime_agents, runtime_teams, agent_state, workflow_vars, substitution_vars>>

\* runtime.execute_workflow(workflow_name, input_data); a registered workflow
\* has no agents, so its execute returns the input
ExecuteWorkflow(workflow_name, input) ==
  /\ call.phase # "executing"
  /\ IF workflow_name \notin DOMAIN runtime_workflows
     THEN call' = [op |-> "execute_workflow", phase |-> "raised",
                   workflow_name |-> workflow_name, error |-> "ValueError"]
     ELSE call' = [op |-> "execute_workflow", phase |-> "returned",
                   workflow_name |-> workflow_name, result |-> input]
  /\ UNCHANGED <<runtime_vars, agent_state, workflow_vars, substitution_vars>>

\* runtime.execute_task_with_agent(agent_id, task, parameters) up to the
\* suspension of process_task in the generation step
ExecuteTaskWithAgent(agent_id, task, parameters) ==
  /\ call.phase # "executing"
  /\ IF get_agent(runtime_agents, agent_id) = None
     THEN /\ call' = [op |-> "execute_task_with_agent", phase |-> "raised",
                      agent_id |-> agent_id, error |-> "ValueError"]
          /\ UNCHANGED runtime_agents
     ELSE /\ Len(runtime_agents[agent_id].completed_tasks) < MaxCalls
          /\ runtime_agents' =
               [runtime_agents EXCEPT ![agent_id] = process_task_begin(@, task, parameters)]
          /\ call' = [op |-> "execute_task_with_agent", phase |-> "executing",
                      agent_id |-> agent_id, task |-> task, parameters |-> parameters,
                      error |-> NoError]
  /\ UNCHANGED <<runtime_teams, runtime_workflows, agent_state, workflow_vars, substitution_vars>>

\* the generation step of the executing agent returns
AgentTaskReturns ==
  /\ call.op = "execute_task_with_agent"
  /\ call.phase = "executing"
  /\ runtime_agents' =
       [runtime_agents EXCEPT ![call.agent_id] = process_task_end(@, call.task, Generated)]
  /\ call' = [call EXCEPT !.phase = "returned"]
  /\ UNCHANGED <<runtime_teams, runtime_workflows, agent_state, workflow_vars, substitution_vars>>

\* the generation step of the executing agent raises
AgentTaskFails(e) ==
  /\ call.op = "execute_task_with_agent"
  /\ call.phase = "executing"
  /\ call' = [call EXCEPT !.phase = "raised", !.error = e]
  /\ UNCHANGED <<runtime_vars, agent_state, workflow_vars, substitution_vars>>

\* runtime.reset_agent(agent_id)
ResetAgent(agent_id) ==
  /\ call.phase # "executing"
  /\ IF get_agent(runtime_agents, agent_id) = None
     THEN /\ call' = [op |-> "reset_agent", phase |-> "returned", agent_id |-> agent_id,
                      result |-> FALSE]
          /\ UNCHANGED runtime_agents
     ELSE /\ runtime_agents' = [runtime_agents EXCEPT ![agent_id] = reset_agent_state(@)]
          /\ call' = [op |-> "reset_agent", phase |-> "returned", agent_id |-> agent_id,
                      result |-> TRUE]
  /\ UNCHANGED <<runtime_teams, runtime_workflows, agent_state, workflow_vars, substitution_vars>>

\* runtime.shutdown()
Shutdown ==
  /\ call.phase # "executing"
  /\ runtime_agents' = <<>>
  /\ runtime_teams' = <<>>
  /\ runtime_workflows' = <<>>
  /\ call' = [op |-> "shutdown", phase |-> "returned"]
  /\ UNCHANGED <<agent_state, workflow_vars, substitution_vars>>

RuntimeInit ==
  /\ runtime_agents = <<>>
  /\ runtime_teams = <<>>
  /\ runtime_workflows = <<>>
  /\ call = NoCall
  /\ AgentAtRest
  /\ WorkflowAtRest
  /\ SubstitutionAtRest

RuntimeNext ==
  \/ \E agent_id \in AgentIds : CreateAgent(agent_id)
  \/ \E team_metadata \in TeamInputs, agent_configs \in AgentConfigs :
       CreateTeam(team_metadata, agent_configs)
  \/ \E name \in TeamNames, agent_configs \in AgentConfigs :
       CreateTeamAgain(name, agent_configs)

RuntimeSpec == RuntimeInit /\ [][RuntimeNext]_vars

(***************************************************************************)
(* The registry specification: one AgentRuntime that serves lookups,        *)
(* executions, resets and shutdown next to the creation of agents and of    *)
(* one team of a single writer.                                             *)
(***************************************************************************)
WriterTeam == TeamMetadata("pool", <<"writer">>, <<>>)

WriterConfigs == [writer |-> [role |-> "writer"]]

RegistryNext ==
  \/ \E agent_id \in AgentIds : CreateAgent(agent_id)
  \/ CreateTeam(WriterTeam, WriterConfigs)
  \/ \E agent_id \in LookupIds : GetAgent(agent_id)
  \/ \E team_name \in TeamNames \cup {"nothing"} : GetTeam(team_name)
  \/ \E workflow_name \in WorkflowNames : GetWorkflow(workflow_name)
  \/ RegisterWorkflow("wf")
  \/ \E workflow_name \in WorkflowNames, input \in Inputs :
       ExecuteWorkflow(workflow_name, input)
  \/ \E agent_id \in LookupIds, task \in RuntimeTasks, parameters \in RuntimeParameters :
       ExecuteTaskWithAgent(agent_id, task, parameters)
  \/ AgentTaskReturns
  \/ \E e \in Exceptions : AgentTaskFails(e)
  \/ \E agent_id \in LookupIds : ResetAgent(agent_id)
  \/ Shutdown

RegistrySpec == RuntimeInit /\ [][RegistryNext]_vars

(***************************************************************************)
(* Claims about the runtime registries.                                     *)
(***************************************************************************)
\* the ids of the agents that fill the slots from index idx on whose role
\* has a configuration, in slot order
RECURSIVE ConfiguredSlotIds(_, _, _)
ConfiguredSlotIds(team_metadata, agent_configs, idx) ==
  IF idx >= Len(team_metadata.roles) THEN <<>>
  ELSE (IF team_metadata.roles[idx + 1] \in DOMAIN agent_configs
        THEN <<AgentId(team_metadata.name, team_metadata.roles[idx + 1], idx)>>
        ELSE <<>>)
       \o ConfiguredSlotIds(team_metadata, agent_configs, idx + 1)

\* a step in which create_team is called with a TeamMetadata whose agent_ids
\* list is empty
CreateTeamOnEmptyIds ==
  call'.op = "create_team" /\ call'.team_metadata.agent_ids = <<>>

\* C20 (step): create_team on a TeamMetadata without agent ids creates one agent per
\* role slot that has a configuration, registers each of them, appends their
\* ids to the team's agent_ids in slot order, skips the slots without a
\* configuration without failing, and registers the team under its name;
\* afterwards every id of the team names a registered agent and there are no
\* more ids than role slots.
C20_CreateTeamStep ==
  CreateTeamOnEmptyIds =>
    LET given == call'.team_metadata
        ids == ConfiguredSlotIds(given, call'.agent_configs, 0)
    IN  /\ call'.phase = "returned"
        /\ call'.team_agents = ids
        /\ \A j, k \in 1..Len(ids) : j # k => ids[j] # ids[k]
        /\ given.name \in DOMAIN runtime_teams'
        /\ runtime_teams'[given.name].agent_ids = ids
        /\ runtime_teams'[given.name].roles = given.roles
        /\ \A id \in Range(runtime_teams'[given.name].agent_ids) :
             id \in DOMAIN runtime_agents'
        /\ DOMAIN runtime_agents' = DOMAIN runtime_agents \cup Range(ids)
        /\ Len(runtime_teams'[given.name].agent_ids) <= Len(given.roles)

UnregisteredTarget(c) ==
  \/ c.op \in {"get_agent", "execute_task_with_agent"} /\ c.agent_id \notin DOMAIN runtime_agents
  \/ c.op = "get_team" /\ c.team_name \notin DOMAIN runtime_teams
  \/ c.op \in {"get_workflow", "execute_workflow"}
       /\ c.workflow_name \notin DOMAIN runtime_workflows

RegistriesEmpty ==
  runtime_agents = <<>> /\ runtime_teams = <<>> /\ runtime_workflows = <<>>

C21_NotFoundStep ==
  /\ UnregisteredTarget(call') =>
       /\ call'.op \in {"get_agent", "get_team", "get_workflow"} =>
            call'.phase = "returned" /\ call'.result = None
       /\ call'.op \in {"execute_workflow", "execute_task_with_agent"} =>
            call'.phase = "raised" /\ call'.error = "ValueError"
       /\ runtime_vars' = runtime_vars
  /\ call'.op = "shutdown" => RegistriesEmpty'
  /\ (RegistriesEmpty /\ call'.op \in {"get_agent", "get_team", "get_workflow"}) =>
       call'.result = None

\* C21: a lookup of an unregistered agent id, team name or workflow name,
\* also after shutdown, returns None without raising; execute_workflow and
\* execute_task_with_agent on an unregistered target raise ValueError; in all
\* these cases the three registries and every registered agent are unchanged.
C21_UnregisteredLookups == [][C21_NotFoundStep]_vars

C21_Witness ==
  /\ call.op = "execute_task_with_agent"
  /\ call.phase = "raised"
  /\ call.error = "ValueError"
  /\ call.agent_id = "a1"
  /\ "a1" \notin DOMAIN runtime_agents
  /\ "pool_writer_0" \in DOMAIN runtime_agents
  /\ Len(runtime_agents["pool_writer_0"].completed_tasks) > 0
  /\ "pool" \in DOMAIN runtime_teams
  /\ "wf" \in DOMAIN runtime_workflows

C22_ResetStep ==
  call'.op = "reset_agent" =>
    IF call'.agent_id \in DOMAIN runtime_agents
    THEN /\ call'.phase = "returned"
         /\ call'.result = TRUE
         /\ DOMAIN runtime_agents' = DOMAIN runtime_agents
         /\ runtime_agents'[call'.agent_id].variables = <<>>
         /\ runtime_agents'[call'.agent_id].completed_tasks = <<>>
         /\ runtime_agents'[call'.agent_id].current_task = "None"
         /\ \A other \in DOMAIN runtime_agents \ {call'.agent_id} :
              runtime_agents'[other] = runtime_agents[other]
    ELSE /\ call'.phase = "returned"
         /\ call'.result = FALSE
         /\ runtime_agents' = runtime_agents

\* C22: reset_agent on a registered stateful agent, whatever tasks ran on it
\* before, leaves its variable store empty, its completed-task list empty and
\* no current task, and reports success; on an unregistered id it reports
\* failure and changes no agent.
C22_ResetClearsAgent == [][C22_ResetStep]_vars

\* a reset agent that had run a task (its status is still COMPLETED) next to
\* another agent whose history is kept
C22_Witness ==
  /\ call.op = "reset_agent"
  /\ call.agent_id = "a1"
  /\ call.result = TRUE
  /\ "a1" \in DOMAIN runtime_agents
  /\ runtime_agents["a1"].status = "completed"
  /\ runtime_agents["a1"].completed_tasks = <<>>
  /\ "pool_writer_0" \in DOMAIN runtime_agents
  /\ Len(runtime_agents["pool_writer_0"].completed_tasks) > 0

(***************************************************************************)
(* The repeat specification: one SEQUENTIAL workflow over StatefulAgents    *)
(* whose generation step is a function of the task and the resolved         *)
(* prompt, executed twice in succession with the same input.  frames keeps  *)
(* the process_task calls of both invocations.                              *)
(***************************************************************************)
RepeatConfigs ==
  {Config("sequential", a, FALSE, "None", NoInt, "None") : a \in AgentLists \ {<<>>}}

RepeatInputs ==
  {[task_description |-> t, parameters |-> p] : t \in AgentTasks, p \in ExtraParameters}

\* a deterministic _execute_task: the result of StatefulAgent._execute_task
\* together with the task, handed on to the next agent of the chain
DeterministicResult(task, resolved_prompt) ==
  [task_id |-> task.task_id, prompt |-> Str(resolved_prompt), status |-> "completed",
   task_description |-> task]

\* the generation step of the awaited agent returns its result
DeterministicResume ==
  /\ Len(frames) > 0
  /\ LET f == frames[Len(frames)]
     IN  SequentialResume(DeterministicResult(f.task, substitute_task_prompt(state[f.agent], f.task)))

\* the caller invokes execute a second time with the same input
ExecuteAgain ==
  /\ wf_state = "completed"
  /\ cfg.pattern = "sequential"
  /\ Len(frames) = Len(cfg.agents)
  /\ SequentialCall(state, frames, input_data, 0)
  /\ result' = input_data
  /\ UNCHANGED <<cfg, input_data, error, gather, done_order>>
  /\ UNCHANGED <<substitution_vars, agent_vars, runtime_vars>>

RepeatInit ==
  /\ cfg \in RepeatConfigs
  /\ input_data \in RepeatInputs
  /\ wf_state = "pending"
  /\ result = None
  /\ error = NoError
  /\ iteration = 0
  /\ state = [a \in Agents |-> AgentState]
  /\ frames = <<>>
  /\ gather = [state |-> "none", exception |-> NoError]
  /\ done_order = <<>>
  /\ SubstitutionAtRest
  /\ AgentAtRest
  /\ call = NoCall
  /\ RuntimeAtRest

RepeatNext ==
  \/ ExecuteSequential
  \/ DeterministicResume
  \/ ExecuteAgain

RepeatSpec == RepeatInit /\ [][RepeatNext]_vars

\* both invocations have returned
RepeatDone == wf_state = "completed" /\ Len(frames) = 2 * Len(cfg.agents)

FirstOutput == frames[Len(cfg.agents)].result

SecondOutput == result

\* the names that the first segment of a placeholder of the prompt reads
PromptReads(task) ==
  {Cat(Split(n)[1]) : n \in Range(extract_variable_names(task.prompt))}

\* no call of the two invocations resolves a placeholder from a key that
\* the chain stores in an agent: an output key, or content
NoStoredKeyRead ==
  \A k \in 1..Len(frames) :
    /\ frames[k].task.output_key \notin PromptReads(frames[k].task)
    /\ "content" \notin PromptReads(frames[k].task)

Distinct(agents) ==
  \A j, k \in 1..Len(agents) : j # k => agents[j] # agents[k]

\* the state of a fresh agent on which only the call of frame f was made
\* and has come as far as f.phase says
StateAlone(f) ==
  LET entered == process_task_begin(AgentState, f.task, f.parameters)
  IN  CASE f.phase = "created" -> AgentState
        [] f.phase \in {"executing", "raised"} -> entered
        [] f.phase = "returned" -> process_task_end(entered, f.task, f.result)

ParallelOverDistinctAgents ==
  /\ cfg.pattern = "parallel"
  /\ wf_state # "pending"
  /\ Distinct(cfg.agents)

\* C24: in a PARALLEL workflow over pairwise distinct agents, under every
\* interleaving, each agent's state (status, current task, completed tasks,
\* variables, parameters) is the state it would have after running the same
\* task alone, at the join and at every step before and after it; an agent
\* that is not in the list is never written.
C24_ParallelAgentsIsolated ==
  ParallelOverDistinctAgents =>
    /\ \A k \in 1..Len(frames) : state[frames[k].agent] = StateAlone(frames[k])
    /\ \A a \in Agents \ Range(cfg.agents) : state[a] = AgentState

\* the join of three branches that completed out of order with different
\* results
C24_Witness ==
  /\ ParallelOverDistinctAgents
  /\ wf_state = "completed"
  /\ Len(cfg.agents) = MaxAgents
  /\ done_order[1] # 1
  /\ frames[1].result # frames[2].result
  /\ frames[1].task.output_key # "None"
  /\ frames[1].parameters # <<>>

\* a PARALLEL workflow whose list names one agent instance more than once
ParallelOnSharedAgent ==
  /\ cfg.pattern = "parallel"
  /\ ~Distinct(cfg.agents)

C25_LastWriterStep ==
  ParallelOnSharedAgent =>
    \A k \in 1..Len(frames) :
      LET f == frames[k]
          before == state[f.agent]
          after == state'[f.agent]
      IN  /\ (f.phase = "created" /\ frames'[k].phase = "executing") =>
               /\ after.status = "working"
               /\ after.current_task = f.task.task_id
          /\ (f.phase = "executing" /\ frames'[k].phase = "returned") =>
               /\ after.status = "completed"
               /\ after.current_task = "None"
               /\ after.completed_tasks = Append(before.completed_tasks, f.task.task_id)
               /\ f.task.output_key # "None" =>
                    after.variables[f.task.output_key] = frames'[k].result

\* C25: two process_task invocations on one agent instance are not
\* serialised; each writes status, current task and the variable under the
\* shared output key when it runs, whatever the other invocation is doing, so
\* these fields reflect the last writer only.
C25_SharedAgentLastWriter == [][C25_LastWriterStep]_vars

\* the agent is COMPLETED with no current task while its other invocation is
\* still executing
C25_Witness ==
  /\ ParallelOnSharedAgent
  /\ Len(frames) = 2
  /\ frames[1].agent = frames[2].agent
  /\ frames[1].phase = "returned"
  /\ frames[2].phase = "executing"
  /\ state[frames[2].agent].status = "completed"
  /\ state[frames[2].agent].current_task = "None"
  /\ frames[1].task.output_key # "None"
  /\ state[frames[2].agent].variables[frames[1].task.output_key] = frames[1].result

C26_ParallelStep ==
  cfg.pattern = "parallel" =>
    /\ wf_state' # "pending" =>
         /\ Len(frames') = Len(cfg.agents)
         /\ \A k \in 1..Len(frames') :
              /\ frames'[k].agent = cfg.agents[k]
              /\ frames'[k].task = ParallelTask(input_data)
              /\ frames'[k].parameters = ParallelParams(input_data)
    /\ \A k \in 1..Len(frames) :
         /\ frames'[k].phase = "created" => frames[k].phase = "created"
         /\ frames'[k].phase = "executing" => frames[k].phase \in {"created", "executing"}
    /\ (wf_state = "running" /\ wf_state' # "running") =>
         \A k \in 1..Len(frames) : frames[k].phase # "created"

\* C26: a PARALLEL workflow makes one process_task invocation per entry of
\* its agent list, never a second one, each with the task description and
\* the parameters of the input, and every invocation has been started when
\* execute resumes from the join.
C26_ParallelInvokesEachOnce == [][C26_ParallelStep]_vars

\* the join has delivered the exception of one branch while another branch,
\* already started, is still executing
C26_Witness ==
  /\ cfg.pattern = "parallel"
  /\ wf_state = "failed"
  /\ Len(frames) = MaxAgents
  /\ frames[1].phase = "raised"
  /\ frames[MaxAgents].phase = "executing"
  /\ frames[1].task = T1
  /\ frames[1].parameters # <<>>

(***************************************************************************)
(* Claims about the parameters handed to process_task.                      *)
(***************************************************************************)
\* every stored parameter is in the resolution context of `task`, with its
\* own value unless a variable or a task parameter of that name overrides it
ParametersInContext(st, task) ==
  LET task_context == prepare_task_context(st, task)
  IN  \A key \in DOMAIN st.parameters :
        /\ key \in DOMAIN task_context
        /\ key \notin (DOMAIN st.variables \cup DOMAIN task.parameters) =>
             task_context[key] = st.parameters[key]

C27_ParametersStep ==
  /\ (call'.op = "execute_task_with_agent" /\ call'.phase = "executing" /\ call.phase # "executing") =>
       LET before == runtime_agents[call'.agent_id].parameters
           after == runtime_agents'[call'.agent_id].parameters
       IN  /\ DOMAIN after = DOMAIN before \cup DOMAIN call'.parameters
           /\ \A key \in DOMAIN call'.parameters : after[key] = call'.parameters[key]
           /\ \A key \in DOMAIN before \ DOMAIN call'.parameters : after[key] = before[key]
           /\ ParametersInContext(runtime_agents'[call'.agent_id], call'.task)
  /\ (call.phase = "executing" \/ call'.op = "reset_agent") =>
       /\ DOMAIN runtime_agents' = DOMAIN runtime_agents
       /\ \A a \in DOMAIN runtime_agents :
            runtime_agents'[a].parameters = runtime_agents[a].parameters

\* C27: the parameters passed to a process_task call are written into the
\* agent's own parameter store, stay there when the call returns or fails
\* and when the agent is reset, and are part of the resolution context of
\* later tasks until a later call overwrites them.
C27_ParametersPersist == [][C27_ParametersStep]_vars

\* an agent whose task failed (status still WORKING) has been reset and still
\* holds the parameter of that call
C27_Witness ==
  /\ call.op = "reset_agent"
  /\ call.agent_id = "a1"
  /\ call.result = TRUE
  /\ "a1" \in DOMAIN runtime_agents
  /\ runtime_agents["a1"].status = "working"
  /\ runtime_agents["a1"].variables = <<>>
  /\ "k" \in DOMAIN runtime_agents["a1"].parameters

(***************************************************************************)
(* Claims about a generation step that raises.                              *)
(***************************************************************************)
C28_FailureStep ==
  /\ ProcessTaskEntered =>
       /\ agent_state'.variables = agent_state.variables
       /\ agent_state'.completed_tasks = agent_state.completed_tasks
  /\ ProcessTaskRaises =>
       /\ call'.error \in Exceptions
       /\ call'.result = None
       /\ agent_state'.completed_tasks = agent_state.completed_tasks
       /\ agent_state'.variables = agent_state.variables
       /\ agent_state'.current_task = call.task.task_id

\* C28: when the generation step raises inside process_task, the caller gets
\* that exception, the task id is not appended to the completed tasks, the
\* variable store is as it was before the call, and current_task still names
\* the failed task.
C28_FailedTaskLeavesNoResult == [][C28_FailureStep]_vars

\* a task with output key k has failed after another task had completed
C28_Witness ==
  /\ call.op = "process_task"
  /\ call.phase = "raised"
  /\ call.error = "TimeoutError"
  /\ call.task = TaskStore
  /\ agent_state.current_task = "store"
  /\ agent_state.completed_tasks = <<"param">>
  /\ DOMAIN agent_state.variables = {"out"}

(***************************************************************************)
(* Claims about validate and substitute taken together.                     *)
(***************************************************************************)
\* the name between the braces of a placeholder, as validate lists it
NameOf(piece) == Cat(SubSeq(piece, 2, Len(piece) - 1))

\* substitute leaves the text of the placeholder as it is
LeftUnchanged(piece, variables) == replace_var(piece, variables) = piece

\* C29: validate and substitute agree on every template and context: the
\* name of a placeholder is in the missing list of validate exactly when
\* substitute leaves the text of that placeholder unchanged, also for dotted
\* paths and for keys whose stored value is None.
C29_ValidateAgreesWithSubstitute ==
  (substituted # None /\ validated # None) =>
    \A k \in 1..Len(template) :
      IsPlaceholder(template[k]) =>
        (NameOf(template[k]) \in Range(validated.missing)
           <=> LeftUnchanged(template[k], context))

(***************************************************************************)
(* Claims about the branches of a PARALLEL workflow that has failed.        *)
(***************************************************************************)
C30_FailedParallelStep ==
  cfg.pattern = "parallel" =>
    /\ \A k \in 1..Len(frames) :
         (frames[k].phase = "executing" /\ frames'[k].phase = "raised") =>
           /\ \A j \in 1..Len(frames) \ {k} : frames'[j] = frames[j]
           /\ state' = state
    /\ (wf_state = "running" /\ wf_state' = "failed") =>
         /\ frames' = frames
         /\ state' = state
    /\ wf_state = "failed" =>
         /\ wf_state' = "failed"
         /\ error' = error
         /\ \A k \in 1..Len(frames) :
              LET f == frames[k]
                  before == state[f.agent]
                  after == state'[f.agent]
              IN  /\ (f.phase = "executing" /\ frames'[k].phase = "returned") =>
                       /\ after.status = "completed"
                       /\ after.completed_tasks = Append(before.completed_tasks, f.task.task_id)
                       /\ f.task.output_key # "None" =>
                            after.variables[f.task.output_key] = frames'[k].result
                  /\ (f.phase = "returned" /\ Distinct(cfg.agents)) => after = before

====
